---------------------------- MODULE Spec2Model ----------------------------
(***************************************************************************)
(* Model of src/main.py: the password analysis functions                   *)
(* (analyze_password, calculate_strength, generate_suggestions) and the    *)
(* password generator (generate_password).                                 *)
(*                                                                         *)
(* A Python str is a sequence of one-character strings.  A value returned  *)
(* by generate_password carries its Python type beside its characters.     *)
(***************************************************************************)
EXTENDS Integers, Sequences, FiniteSets

VARIABLES
    lastOp,       \* the function called last: "none", "analyze", "evaluate", "generate"
    password,     \* the str handed to analyze_password
    analysis,     \* the dict returned by analyze_password (or handed in directly)
    strength,     \* the dict returned by calculate_strength(analysis)
    suggestions,  \* the list returned by generate_suggestions(analysis)
    genReq,       \* the arguments of the last generate_password call
    generated     \* the value returned by generate_password

vars == <<lastOp, password, analysis, strength, suggestions, genReq, generated>>

None == "None"

-----------------------------------------------------------------------------
(* Bounds of the model *)

\* longest str handed to analyze_password
MaxPwLen == 3

\* largest 'length' entry of a feature record handed to calculate_strength
\* and generate_suggestions directly
MaxLength == 13

\* largest 'length' argument of generate_password
MaxGenLen == 2

\* the characters the analysed strings are drawn from: lowercase and
\* uppercase letters, digits, a punctuation character and a line break
PwChars == {"a", "b", "c", "A", "1", "2", "3", "!", "\n"}

-----------------------------------------------------------------------------
(* Helpers *)

Range(s) == {s[i] : i \in 1..Len(s)}

Min(a, b) == IF a < b THEN a ELSE b

Max(a, b) == IF a > b THEN a ELSE b

\* Python's int(bool), as used by sum([...]) over booleans
BoolToInt(b) == IF b THEN 1 ELSE 0

\* all sequences over S of length at most n
RECURSIVE SeqsUpTo(_, _)
SeqsUpTo(S, n) ==
    IF n = 0 THEN {<<>>}
    ELSE LET shorter == SeqsUpTo(S, n - 1)
         IN  shorter \cup {Append(s, c) : s \in {t \in shorter : Len(t) = n - 1}, c \in S}

-----------------------------------------------------------------------------
(* Character sets: string.ascii_uppercase, string.ascii_lowercase,         *)
(* string.digits and the literal of line 183                               *)

ascii_uppercase ==
    <<"A", "B", "C", "D", "E", "F", "G", "H", "I", "J", "K", "L", "M",
      "N", "O", "P", "Q", "R", "S", "T", "U", "V", "W", "X", "Y", "Z">>

ascii_lowercase ==
    <<"a", "b", "c", "d", "e", "f", "g", "h", "i", "j", "k", "l", "m",
      "n", "o", "p", "q", "r", "s", "t", "u", "v", "w", "x", "y", "z">>

digits == <<"0", "1", "2", "3", "4", "5", "6", "7", "8", "9">>

special_chars ==
    <<"!", "@", "#", "$", "%", "^", "&", "*", "(", ")", "_", "+", "-", "=">>

-----------------------------------------------------------------------------
(* analyze_password *)

\* str.lower() on one character (ASCII letters; the others are unchanged)
LowerChar(c) ==
    IF \E i \in 1..Len(ascii_uppercase) : ascii_uppercase[i] = c
    THEN ascii_lowercase[CHOOSE i \in 1..Len(ascii_uppercase) : ascii_uppercase[i] = c]
    ELSE c

\* password.lower()
Lower(s) == [i \in 1..Len(s) |-> LowerChar(s[i])]

\* re.search of a one-character class given as a set of characters
SearchClass(class, s) == \E i \in 1..Len(s) : s[i] \in class

\* re.search(r'[A-Z]', s)
SearchUpper(s) == SearchClass(Range(ascii_uppercase), s)

\* re.search(r'[a-z]', s)
SearchLower(s) == SearchClass(Range(ascii_lowercase), s)

\* re.search(r'[0-9]', s)
SearchDigit(s) == SearchClass(Range(digits), s)

\* re.search(r'[^A-Za-z0-9]', s): a negated class matches every other
\* character, the line break included
SearchSpecial(s) ==
    \E i \in 1..Len(s) :
        s[i] \notin (Range(ascii_uppercase) \cup Range(ascii_lowercase) \cup Range(digits))

\* the alternatives of r'(123|abc|password|qwerty)'
CommonPatterns ==
    { <<"1", "2", "3">>,
      <<"a", "b", "c">>,
      <<"p", "a", "s", "s", "w", "o", "r", "d">>,
      <<"q", "w", "e", "r", "t", "y">> }

\* the literal p matches s at position i
LiteralAt(p, s, i) ==
    /\ i + Len(p) - 1 <= Len(s)
    /\ \A k \in 1..Len(p) : s[i + k - 1] = p[k]

\* re.search(r'(123|abc|password|qwerty)', s)
SearchCommon(s) ==
    \E i \in 1..Len(s) : \E p \in CommonPatterns : LiteralAt(p, s, i)

\* what '.' matches without re.DOTALL: any character except a line break
Dot(c) == c # "\n"

\* r'(.)\1{2,}' matches s at position i: a character '.' accepts, followed
\* by at least two copies of it
RepeatAt(s, i) ==
    /\ i + 2 <= Len(s)
    /\ Dot(s[i])
    /\ s[i + 1] = s[i]
    /\ s[i + 2] = s[i]

\* re.search(r'(.)\1{2,}', s)
SearchRepeat(s) == \E i \in 1..Len(s) : RepeatAt(s, i)

analyze_password(s) ==
    [ length          |-> Len(s),
      uppercase       |-> SearchUpper(s),
      lowercase       |-> SearchLower(s),
      numbers         |-> SearchDigit(s),
      special         |-> SearchSpecial(s),
      common_patterns |-> SearchCommon(Lower(s)),
      repeats         |-> SearchRepeat(s) ]

-----------------------------------------------------------------------------
(* calculate_strength *)

\* variant of LengthPoints: the cap of 20 is missing
LengthPoints_uncapped(a) == a.length * 2

\* line 125: min(analysis['length'] * 2, 20)
LengthPoints(a) == Min(a.length * 2, 20)

\* lines 126-127: 5 * sum([uppercase, lowercase, numbers, special])
ClassPoints(a) ==
    5 * (BoolToInt(a.uppercase) + BoolToInt(a.lowercase)
         + BoolToInt(a.numbers) + BoolToInt(a.special))

\* variant of Deductions: the short-length deduction tests length <= 8
Deductions_le8(a) ==
    (IF a.common_patterns THEN 15 ELSE 0)
    + (IF a.repeats THEN 10 ELSE 0)
    + (IF a.length <= 8 THEN 20 ELSE 0)

\* lines 130-135: the amount the three 'score -= ...' statements take off
Deductions(a) ==
    (IF a.common_patterns THEN 15 ELSE 0)
    + (IF a.repeats THEN 10 ELSE 0)
    + (IF a.length < 8 THEN 20 ELSE 0)

\* the value of 'score' before line 138
RawScore(a) == LengthPoints(a) + ClassPoints(a) - Deductions(a)

\* variant of Normalize: the lower clamp is missing
Normalize_no_floor(score) == Min(score, 100)

\* line 138: max(0, min(score, 100))
Normalize(score) == Max(0, Min(score, 100))

\* variant of Category: the first threshold is inclusive
Category_le40(score) ==
    IF score <= 40 THEN [strength |-> "Weak", color |-> "#ff4b4b"]
    ELSE IF score < 75 THEN [strength |-> "Moderate", color |-> "#f4c430"]
    ELSE [strength |-> "Strong", color |-> "#2ecc71"]

\* lines 141-146: the category and colour of a normalized score
Category(score) ==
    IF score < 40 THEN [strength |-> "Weak", color |-> "#ff4b4b"]
    ELSE IF score < 75 THEN [strength |-> "Moderate", color |-> "#f4c430"]
    ELSE [strength |-> "Strong", color |-> "#2ecc71"]

calculate_strength(a) ==
    LET score == Normalize(RawScore(a))
        cat   == Category(score)
    IN  [strength |-> cat.strength, score |-> score, color |-> cat.color]

-----------------------------------------------------------------------------
(* generate_suggestions: the messages, without their leading pictograph *)

MsgLength     == "Increase length to at least 12 characters"
MsgUpper      == "Add uppercase letters"
MsgLower      == "Add lowercase letters"
MsgNumbers    == "Include numbers"
MsgSpecial    == "Add special characters (!@#$%^ etc.)"
MsgCommon     == "Avoid common patterns and dictionary words"
MsgRepeats    == "Reduce repeating characters"
MsgPassphrase == "Try using a passphrase instead of random characters"
MsgExcellent  == "Excellent password! Consider using a password manager to store it securely."

\* 'if cond: suggestions.append(msg)'
AppendIf(list, cond, msg) == IF cond THEN Append(list, msg) ELSE list

\* lines 152-165: the seven checks on the feature record, in order
BasicSuggestions(a) ==
    LET s1 == AppendIf(<<>>, a.length < 12, MsgLength)
        s2 == AppendIf(s1, ~a.uppercase, MsgUpper)
        s3 == AppendIf(s2, ~a.lowercase, MsgLower)
        s4 == AppendIf(s3, ~a.numbers, MsgNumbers)
        s5 == AppendIf(s4, ~a.special, MsgSpecial)
        s6 == AppendIf(s5, a.common_patterns, MsgCommon)
    IN  AppendIf(s6, a.repeats, MsgRepeats)

\* variant of PassphraseRule: the lower bound on the length is missing
PassphraseRule_no_lower(a) == a.length < 12

\* line 168: the condition of the passphrase suggestion
PassphraseRule(a) == a.length >= 8 /\ a.length < 12

\* variant of SentinelRule: the message is added to a list of one entry too
SentinelRule_le1(list) == Len(list) <= 1

\* line 170: the condition of the closing message
SentinelRule(list) == Len(list) = 0

generate_suggestions(a) ==
    LET s7 == BasicSuggestions(a)
        s8 == AppendIf(s7, PassphraseRule(a), MsgPassphrase)
    IN  AppendIf(s8, SentinelRule(s8), MsgExcellent)

-----------------------------------------------------------------------------
(* generate_password *)

\* a Python value of type str
PyStr(chars) == [type |-> "str", value |-> chars]

\* line 186: the literal returned when no character type is selected
NoTypeMessage ==
    <<"P", "l", "e", "a", "s", "e", " ", "s", "e", "l", "e", "c", "t", " ",
      "a", "t", " ", "l", "e", "a", "s", "t", " ", "o", "n", "e", " ",
      "c", "h", "a", "r", "a", "c", "t", "e", "r", " ", "t", "y", "p", "e">>

\* variant of Characters: the digits are added when 'special' is set too
Characters_digits_on_special(uppercase, lowercase, numbers, special) ==
    (IF uppercase THEN ascii_uppercase ELSE <<>>)
    \o (IF lowercase THEN ascii_lowercase ELSE <<>>)
    \o (IF numbers \/ special THEN digits ELSE <<>>)
    \o (IF special THEN special_chars ELSE <<>>)

\* lines 179-183: the alphabet 'characters'
Characters(uppercase, lowercase, numbers, special) ==
    (IF uppercase THEN ascii_uppercase ELSE <<>>)
    \o (IF lowercase THEN ascii_lowercase ELSE <<>>)
    \o (IF numbers THEN digits ELSE <<>>)
    \o (IF special THEN special_chars ELSE <<>>)

\* variant of PyRange: one iteration too many
PyRange_inclusive(n) == 0..n

\* range(n)
PyRange(n) == 0..(n - 1)

\* the values secrets.randbelow(len(seq)) can return inside secrets.choice(seq)
RandBelow(seq) == 0..(Len(seq) - 1)

\* secrets.choice(seq) when the random source returns index r
Choice(seq, r) == seq[r + 1]

\* ''.join(f(i) for i in range(...)): the characters in iteration order
Join(iter, f) == [k \in 1..Cardinality(iter) |-> f[k - 1]]

\* what the random source can return over one call: an index of the alphabet
\* in every iteration of line 188, and nothing when line 186 returns first
RandomDraws(length, characters) ==
    IF characters = <<>> THEN {<<>>}
    ELSE [PyRange(length) -> RandBelow(characters)]

\* generate_password, with rnd[i] the random index drawn in iteration i
generate_password(length, uppercase, lowercase, numbers, special, rnd) ==
    LET characters == Characters(uppercase, lowercase, numbers, special)
    IN  IF characters = <<>>
        THEN PyStr(NoTypeMessage)
        ELSE PyStr(Join(PyRange(length),
                        [i \in PyRange(length) |-> Choice(characters, rnd[i])]))

-----------------------------------------------------------------------------
(* The state machine.  The functions keep no state between calls: a call   *)
(* starts from the initial state, and its results are discarded before     *)
(* the next call (Streamlit runs the script afresh on every interaction).  *)

\* longer strings analyze_password is applied to: "Password123!",
\* "aaaAAA111!!!", "QWERTY", "Tr0ub4dor&3x" and "xK9#mQ2$vL"
SamplePasswords ==
    { <<"P", "a", "s", "s", "w", "o", "r", "d", "1", "2", "3", "!">>,
      <<"a", "a", "a", "A", "A", "A", "1", "1", "1", "!", "!", "!">>,
      <<"Q", "W", "E", "R", "T", "Y">>,
      <<"T", "r", "0", "u", "b", "4", "d", "o", "r", "&", "3", "x">>,
      <<"x", "K", "9", "#", "m", "Q", "2", "$", "v", "L">> }

\* the strings analyze_password is applied to
Passwords == SeqsUpTo(PwChars, MaxPwLen) \cup SamplePasswords

\* the feature records calculate_strength and generate_suggestions accept:
\* a length and six booleans
FeatureRecords ==
    [ length          : 0..MaxLength,
      uppercase       : BOOLEAN,
      lowercase       : BOOLEAN,
      numbers         : BOOLEAN,
      special         : BOOLEAN,
      common_patterns : BOOLEAN,
      repeats         : BOOLEAN ]

\* the arguments of generate_password
GenRequests ==
    [ length    : 1..MaxGenLen,
      uppercase : BOOLEAN,
      lowercase : BOOLEAN,
      numbers   : BOOLEAN,
      special   : BOOLEAN ]

Init ==
    /\ lastOp = "none"
    /\ password = None
    /\ analysis = None
    /\ strength = None
    /\ suggestions = None
    /\ genReq = None
    /\ generated = None

\* analyze_password(s), then calculate_strength and generate_suggestions on
\* the record it returned
AnalyzeString ==
    /\ lastOp = "none"
    /\ \E s \in Passwords :
        /\ lastOp' = "analyze"
        /\ password' = s
        /\ analysis' = analyze_password(s)
        /\ strength' = calculate_strength(analysis')
        /\ suggestions' = generate_suggestions(analysis')
        /\ UNCHANGED <<genReq, generated>>

\* calculate_strength and generate_suggestions called on a feature record
EvaluateRecord ==
    /\ lastOp = "none"
    /\ \E a \in FeatureRecords :
        /\ lastOp' = "evaluate"
        /\ password' = None
        /\ analysis' = a
        /\ strength' = calculate_strength(a)
        /\ suggestions' = generate_suggestions(a)
        /\ UNCHANGED <<genReq, generated>>

\* generate_password(length, uppercase, lowercase, numbers, special); the
\* random source returns any index of the alphabet in every iteration
Generate ==
    /\ lastOp = "none"
    /\ \E r \in GenRequests :
        LET characters == Characters(r.uppercase, r.lowercase, r.numbers, r.special)
        IN  \E rnd \in RandomDraws(r.length, characters) :
                /\ lastOp' = "generate"
                /\ genReq' = r
                /\ generated' = generate_password(r.length, r.uppercase, r.lowercase,
                                                  r.numbers, r.special, rnd)
                /\ UNCHANGED <<password, analysis, strength, suggestions>>

\* the results of a call are dropped; the next call starts afresh
Discard ==
    /\ lastOp # "none"
    /\ lastOp' = "none"
    /\ password' = None
    /\ analysis' = None
    /\ strength' = None
    /\ suggestions' = None
    /\ genReq' = None
    /\ generated' = None

Next == AnalyzeString \/ EvaluateRecord \/ Generate \/ Discard

Spec == Init /\ [][Next]_vars

-----------------------------------------------------------------------------
(* Properties *)

\* calculate_strength and generate_suggestions have been applied to 'analysis'
Evaluated == lastOp \in {"analyze", "evaluate"}

\* generate_password has returned 'generated' for the request 'genReq'
Generated == lastOp = "generate"

NoClassSelected ==
    ~genReq.uppercase /\ ~genReq.lowercase /\ ~genReq.numbers /\ ~genReq.special

AllClasses(a) == a.uppercase /\ a.lowercase /\ a.numbers /\ a.special

\* the number of true flags among uppercase, lowercase, numbers, special
ClassCount(a) ==
    Cardinality({f \in {"uppercase", "lowercase", "numbers", "special"} : a[f]})

\* the characters of the classes a generate_password request enables, and
\* of those it disables
EnabledChars(r) ==
    (IF r.uppercase THEN Range(ascii_uppercase) ELSE {})
    \cup (IF r.lowercase THEN Range(ascii_lowercase) ELSE {})
    \cup (IF r.numbers THEN Range(digits) ELSE {})
    \cup (IF r.special THEN Range(special_chars) ELSE {})

DisabledChars(r) ==
    (IF r.uppercase THEN {} ELSE Range(ascii_uppercase))
    \cup (IF r.lowercase THEN {} ELSE Range(ascii_lowercase))
    \cup (IF r.numbers THEN {} ELSE Range(digits))
    \cup (IF r.special THEN {} ELSE Range(special_chars))

\* C1 (as claimed): generate_password with no character class enabled
\* returns an error variant NoCharacterClassSelected that is not a string,
\* whatever the requested length.
C1_ErrorVariant ==
    (Generated /\ NoClassSelected) =>
        /\ generated.type # "str"
        /\ generated.type = "NoCharacterClassSelected"

\* C2: the score of calculate_strength is the clamp to [0,100] of
\* min(length*2, 20) + 5*(number of true class flags) - 15 if
\* common_patterns - 10 if repeats - 20 if length < 8.
C2_ScoreFormula ==
    Evaluated =>
        LET a   == analysis
            len == IF a.length * 2 <= 20 THEN a.length * 2 ELSE 20
            raw == len + 5 * ClassCount(a)
                   - (IF a.common_patterns THEN 15 ELSE 0)
                   - (IF a.repeats THEN 10 ELSE 0)
                   - (IF a.length < 8 THEN 20 ELSE 0)
        IN  strength.score = (IF raw < 0 THEN 0 ELSE IF raw > 100 THEN 100 ELSE raw)

\* C2 witness: a record of length 8 (no short-length deduction) with a
\* common pattern and a repeat run has been scored.
C2_Witness ==
    /\ Evaluated
    /\ analysis.length = 8
    /\ analysis.common_patterns
    /\ analysis.repeats
    /\ AllClasses(analysis)
    /\ strength.score = 11

\* C3: the score returned by calculate_strength lies in 0..100, for every
\* feature record, the all-false record of length 0 included.
C3_ClampInvariant ==
    Evaluated => (0 <= strength.score /\ strength.score <= 100)

\* C3 witness: the empty string has been analysed and scored; its score
\* before normalization is negative and the returned score is 0.
C3_Witness ==
    /\ lastOp = "analyze"
    /\ password = <<>>
    /\ RawScore(analysis) < 0
    /\ strength.score = 0

\* C4: the category is Weak iff score < 40, Moderate iff 40 <= score < 75,
\* Strong iff score >= 75; a score of exactly 40 is Moderate and one of
\* exactly 75 is Strong.
C4_Classification ==
    Evaluated =>
        /\ strength.strength \in {"Weak", "Moderate", "Strong"}
        /\ (strength.strength = "Weak") <=> (strength.score < 40)
        /\ (strength.strength = "Moderate") <=> (40 <= strength.score /\ strength.score < 75)
        /\ (strength.strength = "Strong") <=> (strength.score >= 75)
        /\ strength.score = 40 => strength.strength = "Moderate"
        /\ strength.score = 75 => strength.strength = "Strong"

\* C4 witness: a string scoring exactly 40, the Weak/Moderate boundary, has
\* been analysed and classified.
C4_Witness ==
    /\ lastOp = "analyze"
    /\ strength.score = 40
    /\ strength.strength = "Moderate"

\* C5: the list of generate_suggestions is never empty; it holds the
\* closing "excellent password / password manager" message iff none of the
\* other rules fired (length >= 12, all four classes, no common pattern, no
\* repeat run), and then that message is its only entry.
C5_SentinelExclusive ==
    Evaluated =>
        /\ Len(suggestions) >= 1
        /\ (MsgExcellent \in Range(suggestions)) <=>
               /\ analysis.length >= 12
               /\ AllClasses(analysis)
               /\ ~analysis.common_patterns
               /\ ~analysis.repeats
        /\ (MsgExcellent \in Range(suggestions)) => suggestions = <<MsgExcellent>>

\* C5 witness: a string on which no rule fires has been analysed and the
\* closing message returned.
C5_Witness ==
    /\ lastOp = "analyze"
    /\ analysis.length >= 12
    /\ AllClasses(analysis)
    /\ suggestions = <<MsgExcellent>>

\* the part of scenario 1 on which the claim and the code agree
Scenario1Common ==
    /\ analysis.length = 0
    /\ ~analysis.uppercase /\ ~analysis.lowercase
    /\ ~analysis.numbers /\ ~analysis.special
    /\ ~analysis.common_patterns /\ ~analysis.repeats
    /\ strength.score = 0
    /\ strength.strength = "Weak"
    /\ MsgPassphrase \notin Range(suggestions)
    /\ MsgExcellent \notin Range(suggestions)

\* C6 (as claimed): for the empty string, the record has length 0 and all
\* six booleans false, the score is 0 and Weak, and there are exactly 6
\* suggestions, without the passphrase item and without the closing message.
C6_Scenario1_SixEntries ==
    (lastOp = "analyze" /\ password = <<>>) =>
        /\ Scenario1Common
        /\ Len(suggestions) = 6

\* C6 (amended): as above, with exactly 5 suggestions: the length item and
\* the four missing-class items, in that order.
C6_Scenario1_FiveEntries ==
    (lastOp = "analyze" /\ password = <<>>) =>
        /\ Scenario1Common
        /\ Len(suggestions) = 5
        /\ suggestions = <<MsgLength, MsgUpper, MsgLower, MsgNumbers, MsgSpecial>>

\* C6 witness: the empty string has been analysed, scored and given its
\* suggestions.
C6_Witness ==
    /\ lastOp = "analyze"
    /\ password = <<>>
    /\ Len(suggestions) > 0

\* C7: for a request with length >= 1 and at least one class enabled, the
\* returned string has exactly 'length' characters, whatever the random
\* source returns.
C7_GeneratorLength ==
    (Generated /\ ~NoClassSelected /\ genReq.length >= 1) =>
        /\ generated.type = "str"
        /\ Len(generated.value) = genReq.length

\* C7 witness: a string of more than one character has been generated.
C7_Witness ==
    /\ Generated
    /\ ~NoClassSelected
    /\ genReq.length = MaxGenLen
    /\ Len(generated.value) > 1

\* C8: for a request with at least one class enabled, every character of
\* the returned string belongs to an enabled class and none to a disabled
\* class, whatever the random source returns.
C8_AlphabetContainment ==
    (Generated /\ ~NoClassSelected) =>
        \A i \in 1..Len(generated.value) :
            /\ generated.value[i] \in EnabledChars(genReq)
            /\ generated.value[i] \notin DisabledChars(genReq)

\* C8 witness: with only the special class enabled a string made of the
\* last and the first special character has been generated.
C8_Witness ==
    /\ Generated
    /\ genReq.special /\ ~genReq.uppercase /\ ~genReq.lowercase /\ ~genReq.numbers
    /\ genReq.length = 2
    /\ generated.value = <<"=", "!">>

\* three identical characters in a row somewhere in s
HasRunOfThree(s) ==
    \E i \in 1..(Len(s) - 2) : s[i] = s[i + 1] /\ s[i + 1] = s[i + 2]

\* C9 (as claimed): for every string, line breaks included, the repeat
\* flag of analyze_password is true iff the characters at some i, i+1, i+2
\* are identical.
C9_RepeatFlag ==
    lastOp = "analyze" => (analysis.repeats <=> HasRunOfThree(password))

\* C10: the score never exceeds 40, Strong is never returned, and Moderate
\* is returned exactly when length >= 10, all four class flags are true and
\* there is neither a common pattern nor a repeat run; the score is then 40.
C10_ScoreAtMost40 ==
    Evaluated =>
        /\ strength.score <= 40
        /\ strength.strength # "Strong"
        /\ (strength.strength = "Moderate") <=>
               /\ analysis.length >= 10
               /\ AllClasses(analysis)
               /\ ~analysis.common_patterns
               /\ ~analysis.repeats
        /\ strength.strength = "Moderate" => strength.score = 40

\* C10 witness: the longest record with all four classes and no deduction
\* has been scored: 40 and Moderate.
C10_Witness ==
    /\ Evaluated
    /\ analysis.length = MaxLength
    /\ AllClasses(analysis)
    /\ ~analysis.common_patterns
    /\ ~analysis.repeats
    /\ strength.strength = "Moderate"

=============================================================================
